---- MODULE Spec2Model ----
(***************************************************************************)
(* Model of scripts/python/sync_venue_master_mapping.py: the venue master  *)
(* registry reconciler (sync_master), its helpers and the main() driver;   *)
(* of main() of scripts/python/check_cricsheet_updates.py; and of          *)
(* format_match_prompt of scripts/python/generate_match_narrative.py.      *)
(*                                                                         *)
(* Text values are sequences of one-character strings, so that trimming,   *)
(* lower-casing, the venue_id regular expression, the zero-padded format   *)
(* and Python's code-point string ordering are all computed, not assumed.  *)
(***************************************************************************)
EXTENDS Integers, Sequences, FiniteSets, TLC

VARIABLES
    country_file,    \* seeds/venue_country_mapping.csv on disk
    alias_file,      \* seeds/venue_alias_mapping.csv on disk
    master_file,     \* seeds/venue_master_mapping.csv on disk
    args,            \* parsed command line of the current run
    pc,              \* position of the current run inside main()
    curated,         \* main(): curated (set of Triple)
    master_rows,     \* main(): master_rows (list of dict)
    updated_master,  \* main(): updated_master (list of dict)
    result,          \* main(): result (SyncResult)
    seen,            \* sync_master(): master_keys_seen at return
    stdout,          \* what the run has printed: summary and preview
    pre_file,        \* registry file contents when the current run started
    resynced,        \* outcome of reconciling updated_master once more
    runs,            \* number of runs started so far
    issued,          \* history: the venue_ids the registry file has held, each with its venue
    local_dir,         \* check_cricsheet_updates: names in LOCAL_DATA_DIR, or NoDirectory
    zip_namelist,      \* check_cricsheet_updates: namelist() of all_json.zip on Cricsheet
    local_files,       \* check_cricsheet_updates.main(): local_files
    cricsheet_files,   \* check_cricsheet_updates.main(): cricsheet_files
    new_files,         \* check_cricsheet_updates.main(): new_files
    removed_files,     \* check_cricsheet_updates.main(): removed_files
    files_to_download, \* check_cricsheet_updates.main(): files_to_download
    data,              \* format_match_prompt: data
    config,            \* format_match_prompt: config
    prompt             \* format_match_prompt: the returned prompt

\* the variables of sync_venue_master_mapping.py other than args, pc and stdout
sync_vars == <<country_file, alias_file, master_file, curated, master_rows,
               updated_master, result, seen, pre_file, resynced, runs, issued>>

\* the variables of check_cricsheet_updates.py other than args, pc and stdout
updates_vars == <<local_dir, zip_namelist, local_files, cricsheet_files, new_files,
                  removed_files, files_to_download>>

\* the variables of format_match_prompt
prompt_vars == <<data, config, prompt>>

vars == <<country_file, alias_file, master_file, args, pc, curated, master_rows,
          updated_master, result, seen, stdout, pre_file, resynced, runs, issued,
          local_dir, zip_namelist, local_files, cricsheet_files, new_files,
          removed_files, files_to_download, data, config, prompt>>

(***************************************************************************)
(* Bounds of the model.                                                    *)
(***************************************************************************)
MaxRows == 2        \* rows of the registry handed to sync_master / on disk
MaxCurated == 2     \* Triples in a curated set
MaxRuns == 2        \* runs of main() in one behaviour

(***************************************************************************)
(* Text.                                                                   *)
(***************************************************************************)
\* The characters in use, in code-point order (Python compares str by code point).
CharOrder ==
    <<" ", ".", "/", "0", "1", "2", "3", "4", "5", "6", "7", "8", "9",
      "A", "B", "C", "E", "G", "I", "K", "M", "O", "S", "T", "X", "_",
      "a", "b", "c", "d", "e", "g", "h", "i", "j", "k", "l", "m", "n", "o", "p", "r", "s", "t", "u", "v",
      "x", "y">>

Ord(c) == CHOOSE i \in 1..Len(CharOrder) : CharOrder[i] = c

DigitChars == <<"0", "1", "2", "3", "4", "5", "6", "7", "8", "9">>

IsDigit(c) == \E i \in 1..10 : DigitChars[i] = c

DigitValue(c) == (CHOOSE i \in 1..10 : DigitChars[i] = c) - 1

\* Python's None, as returned by dict.get for a missing key.
None == <<"None">>

\* str.lower() on one character
LowerChar(c) ==
    CASE c = "A" -> "a"
      [] c = "B" -> "b"
      [] c = "C" -> "c"
      [] c = "E" -> "e"
      [] c = "G" -> "g"
      [] c = "I" -> "i"
      [] c = "K" -> "k"
      [] c = "M" -> "m"
      [] c = "O" -> "o"
      [] c = "S" -> "s"
      [] c = "T" -> "t"
      [] c = "X" -> "x"
      [] OTHER -> c

Lower(s) == [i \in 1..Len(s) |-> LowerChar(s[i])]

RECURSIVE LStrip(_)
LStrip(s) == IF s # <<>> /\ Head(s) = " " THEN LStrip(Tail(s)) ELSE s

RECURSIVE RStrip(_)
RStrip(s) ==
    IF s # <<>> /\ s[Len(s)] = " " THEN RStrip(SubSeq(s, 1, Len(s) - 1)) ELSE s

\* str.strip()
Strip(s) == RStrip(LStrip(s))

\* value or ""
OrEmpty(value) == IF value = None THEN <<>> ELSE value

\* _norm: (value or "").strip().lower()
Norm(value) == Lower(Strip(OrEmpty(value)))

\* _clean: (value or "").strip()
Clean(value) == Strip(OrEmpty(value))

\* s < t for Python str
RECURSIVE StrLess(_, _)
StrLess(s, t) ==
    IF t = <<>> THEN FALSE
    ELSE IF s = <<>> THEN TRUE
    ELSE IF Head(s) # Head(t) THEN Ord(Head(s)) < Ord(Head(t))
    ELSE StrLess(Tail(s), Tail(t))

\* dict.get(key): None when the key is missing
Get(row, key) == IF key \in DOMAIN row THEN row[key] ELSE None

(***************************************************************************)
(* Triple and the master row.                                              *)
(***************************************************************************)
MASTER_FIELDS == <<"venue_id", "canonical_venue", "canonical_city", "canonical_country">>

\* Triple.key
Key(t) == <<Norm(t.venue), Norm(t.city), Norm(t.country)>>

\* the dict literal built in sync_master for every output row
MasterRow(venue_id, venue, city, country) ==
    [venue_id |-> venue_id, canonical_venue |-> venue,
     canonical_city |-> city, canonical_country |-> country]

\* (x.venue, x.city, x.country) < (y.venue, y.city, y.country), the sort key of sorted()
SortKeyLess(x, y) ==
    \/ StrLess(x.venue, y.venue)
    \/ x.venue = y.venue /\ StrLess(x.city, y.city)
    \/ x.venue = y.venue /\ x.city = y.city /\ StrLess(x.country, y.country)

\* sorted(): stable insertion of t into the sorted list s
RECURSIVE InsertSorted(_, _)
InsertSorted(s, t) ==
    IF s = <<>> THEN <<t>>
    ELSE IF SortKeyLess(t, Head(s)) THEN <<t>> \o s
    ELSE <<Head(s)>> \o InsertSorted(Tail(s), t)

RECURSIVE Sorted(_)
Sorted(s) ==
    IF s = <<>> THEN <<>>
    ELSE InsertSorted(Sorted(SubSeq(s, 1, Len(s) - 1)), s[Len(s)])

(***************************************************************************)
(* venue_id: pattern and format.                                           *)
(***************************************************************************)
VenPrefix == <<"v", "e", "n", "_">>

\* re.compile(r"^ven_(\d+)$").match(venue_id)
PatternMatch(venue_id) ==
    /\ Len(venue_id) > 4
    /\ SubSeq(venue_id, 1, 4) = VenPrefix
    /\ \A i \in 5..Len(venue_id) : IsDigit(venue_id[i])

\* int() of a string of decimal digits
RECURSIVE ToInt(_)
ToInt(d) ==
    IF d = <<>> THEN 0
    ELSE 10 * ToInt(SubSeq(d, 1, Len(d) - 1)) + DigitValue(d[Len(d)])

\* int(match.group(1))
Group1Int(venue_id) == ToInt(SubSeq(venue_id, 5, Len(venue_id)))

\* str(n) for n >= 0
RECURSIVE Decimal(_)
Decimal(n) ==
    IF n < 10 THEN <<DigitChars[n + 1]>>
    ELSE Decimal(n \div 10) \o <<DigitChars[(n % 10) + 1]>>

RECURSIVE ZeroPad(_, _)
ZeroPad(d, width) == IF Len(d) >= width THEN d ELSE ZeroPad(<<"0">> \o d, width)

\* f"ven_{max_id:06d}"
FormatVenueId(max_id) == VenPrefix \o ZeroPad(Decimal(max_id), 6)

Max(a, b) == IF a >= b THEN a ELSE b

\* Faulty variant (C5 must reject it): the last matching id wins instead of the largest
RECURSIVE ExtractMaxVenueIdLastWins(_)
ExtractMaxVenueIdLastWins(rows) ==
    IF rows = <<>> THEN 0
    ELSE LET rest == ExtractMaxVenueIdLastWins(SubSeq(rows, 1, Len(rows) - 1))
             venue_id == Clean(Get(rows[Len(rows)], "venue_id"))
         IN  IF PatternMatch(venue_id) THEN Group1Int(venue_id) ELSE rest

\* the longest run of digits of s from position i on
RECURSIVE DigitRun(_, _)
DigitRun(s, i) ==
    IF i <= Len(s) /\ IsDigit(s[i]) THEN <<s[i]>> \o DigitRun(s, i + 1) ELSE <<>>

\* Faulty variant (C10 must reject it): the pattern lacks its end anchor, so "ven_8x" counts as 8
RECURSIVE ExtractMaxVenueIdUnanchored(_)
ExtractMaxVenueIdUnanchored(rows) ==
    IF rows = <<>> THEN 0
    ELSE LET rest == ExtractMaxVenueIdUnanchored(SubSeq(rows, 1, Len(rows) - 1))
             venue_id == Clean(Get(rows[Len(rows)], "venue_id"))
         IN  IF Len(venue_id) > 4 /\ SubSeq(venue_id, 1, 4) = VenPrefix
                   /\ DigitRun(venue_id, 5) # <<>>
             THEN Max(rest, ToInt(DigitRun(venue_id, 5)))
             ELSE rest

\* _extract_max_venue_id
RECURSIVE ExtractMaxVenueId(_)
ExtractMaxVenueId(rows) ==
    IF rows = <<>> THEN 0
    ELSE LET rest == ExtractMaxVenueId(SubSeq(rows, 1, Len(rows) - 1))
             venue_id == Clean(Get(rows[Len(rows)], "venue_id"))
         IN  IF PatternMatch(venue_id) THEN Max(rest, Group1Int(venue_id)) ELSE rest

(***************************************************************************)
(* sync_master.  curated_iter is the curated set in the order in which     *)
(* Python happens to iterate it.                                           *)
(***************************************************************************)
\* the last index of seq s whose element satisfies: Key(s[i]) = k
LastWithKey(s, k) == CHOOSE i \in 1..Len(s) :
    /\ Key(s[i]) = k
    /\ \A j \in (i + 1)..Len(s) : Key(s[j]) # k

\* curated_by_key = {t.key: t for t in curated}
CuratedByKey(curated_iter) ==
    [k \in {Key(curated_iter[i]) : i \in 1..Len(curated_iter)} |->
        curated_iter[LastWithKey(curated_iter, k)]]

\* _build_venue_to_triples
BuildVenueToTriples(curated_iter) ==
    [v \in {Norm(curated_iter[i].venue) : i \in 1..Len(curated_iter)} |->
        LET SameVenue(t) == Norm(t.venue) = v
        IN  SelectSeq(curated_iter, SameVenue)]

\* curated_by_venue.get(venue_key, [])
Candidates(curated_by_venue, venue_key) ==
    IF venue_key \in DOMAIN curated_by_venue THEN curated_by_venue[venue_key] ELSE <<>>

\* Faulty variant (C23 must reject it): an exactly matching row is stored under
\* its normalized key instead of its own text
ExactBranchStoresKey(acc, kept, current_key) ==
    [acc EXCEPT !.updated_master =
                    Append(@, [kept EXCEPT !.canonical_venue = current_key[1],
                                           !.canonical_city = current_key[2],
                                           !.canonical_country = current_key[3]]),
                !.master_keys_seen = @ \cup {current_key}]

\* Faulty variant (C30 must reject it): an exactly matching row does not mark
\* its key seen
ExactBranchForgetsSeen(acc, kept, current_key) ==
    [acc EXCEPT !.updated_master = Append(@, kept)]

\* "if current_key in curated_by_key:" branch: keep the row, mark its key seen
ExactBranch(acc, kept, current_key) ==
    [acc EXCEPT !.updated_master = Append(@, kept),
                !.master_keys_seen = @ \cup {current_key}]

\* Faulty variant (C1 must reject it): the in-place update builds the row from the target and loses the id
SingleCandidateBranchDropsId(acc, venue_id, canonical_city, canonical_country, target) ==
    [acc EXCEPT
        !.updated_master = Append(@, MasterRow(<<>>, target.venue, target.city, target.country)),
        !.master_keys_seen = @ \cup {Key(target)},
        !.updated_rows =
            IF <<Norm(canonical_city), Norm(canonical_country)>>
                   # <<Norm(target.city), Norm(target.country)>>
            THEN @ + 1 ELSE @]

\* Faulty variant (C2 must reject it): the in-place update propagates the city but not the country
SingleCandidateBranchCityOnly(acc, venue_id, canonical_city, canonical_country, target) ==
    [acc EXCEPT
        !.updated_master =
            Append(@, MasterRow(venue_id, target.venue, target.city, canonical_country)),
        !.master_keys_seen = @ \cup {Key(target)},
        !.updated_rows =
            IF <<Norm(canonical_city), Norm(canonical_country)>>
                   # <<Norm(target.city), Norm(target.country)>>
            THEN @ + 1 ELSE @]

\* Faulty variant (C21 must reject it): the in-place update does not mark the
\* target's key seen
SingleCandidateBranchForgetsSeen(acc, venue_id, canonical_city, canonical_country, target) ==
    [acc EXCEPT
        !.updated_master =
            Append(@, MasterRow(venue_id, target.venue, target.city, target.country)),
        !.updated_rows =
            IF <<Norm(canonical_city), Norm(canonical_country)>>
                   # <<Norm(target.city), Norm(target.country)>>
            THEN @ + 1 ELSE @]

\* Faulty variant (C22 must reject it): only a change of city counts as an update
SingleCandidateBranchCountsCity(acc, venue_id, canonical_city, canonical_country, target) ==
    [acc EXCEPT
        !.updated_master =
            Append(@, MasterRow(venue_id, target.venue, target.city, target.country)),
        !.master_keys_seen = @ \cup {Key(target)},
        !.updated_rows = IF Norm(canonical_city) # Norm(target.city) THEN @ + 1 ELSE @]

\* "if len(candidates) == 1:" branch: rewrite the row from target, id preserved
SingleCandidateBranch(acc, venue_id, canonical_city, canonical_country, target) ==
    [acc EXCEPT
        !.updated_master =
            Append(@, MasterRow(venue_id, target.venue, target.city, target.country)),
        !.master_keys_seen = @ \cup {Key(target)},
        !.updated_rows =
            IF <<Norm(canonical_city), Norm(canonical_country)>>
                   # <<Norm(target.city), Norm(target.country)>>
            THEN @ + 1 ELSE @]

\* Faulty variant (C4 must reject it): an ambiguous row takes the city and country of its first candidate
OtherwiseBranchGuesses(acc, kept, current_key, candidates) ==
    IF Len(candidates) > 1
    THEN [acc EXCEPT
            !.updated_master =
                Append(@, [kept EXCEPT !.canonical_city = candidates[1].city,
                                       !.canonical_country = candidates[1].country]),
            !.master_keys_seen = @ \cup {Key(candidates[1])},
            !.ambiguous_rows = @ + 1]
    ELSE [acc EXCEPT !.updated_master = Append(@, kept),
                     !.master_keys_seen = @ \cup {current_key}]

\* Faulty variant (C11 must reject it): a row whose venue has left the curated
\* sources is taken to be deleted
OtherwiseBranchDropsOrphan(acc, kept, current_key, candidates) ==
    IF Len(candidates) = 0
    THEN acc
    ELSE [acc EXCEPT !.updated_master = Append(@, kept),
                     !.master_keys_seen = @ \cup {current_key},
                     !.ambiguous_rows = @ + 1]

\* Faulty variant (C27 must reject it): an ambiguous row marks the keys of its
\* candidates seen, so that none of them is appended
OtherwiseBranchSuppresses(acc, kept, current_key, candidates) ==
    [acc EXCEPT !.updated_master = Append(@, kept),
                !.master_keys_seen =
                    @ \cup {current_key} \cup {Key(candidates[i]) : i \in 1..Len(candidates)},
                !.ambiguous_rows = IF Len(candidates) > 1 THEN @ + 1 ELSE @]

\* "else:" branch: zero or several candidates; keep the row, count it if several
OtherwiseBranch(acc, kept, current_key, candidates) ==
    [acc EXCEPT !.updated_master = Append(@, kept),
                !.master_keys_seen = @ \cup {current_key},
                !.ambiguous_rows = IF Len(candidates) > 1 THEN @ + 1 ELSE @]

\* Faulty variant (C12 must reject it): the candidates are counted before the
\* exact key is looked up, so an exactly matching row can be called ambiguous
SyncRowCountsFirst(acc, row, curated_by_key, curated_by_venue) ==
    LET venue_id == Clean(Get(row, "venue_id"))
        canonical_venue == Clean(Get(row, "canonical_venue"))
        canonical_city == Clean(Get(row, "canonical_city"))
        canonical_country == Clean(Get(row, "canonical_country"))
        current_key == <<Norm(canonical_venue), Norm(canonical_city), Norm(canonical_country)>>
        venue_key == Norm(canonical_venue)
        candidates == Candidates(curated_by_venue, venue_key)
        kept == MasterRow(venue_id, canonical_venue, canonical_city, canonical_country)
    IN  IF Len(candidates) > 1
        THEN OtherwiseBranch(acc, kept, current_key, candidates)
        ELSE IF current_key \in DOMAIN curated_by_key
        THEN ExactBranch(acc, kept, current_key)
        ELSE IF Len(candidates) = 1
        THEN SingleCandidateBranch(acc, venue_id, canonical_city, canonical_country,
                                   candidates[1])
        ELSE OtherwiseBranch(acc, kept, current_key, candidates)

\* Body of "for row in master_rows" of sync_master; acc holds the loop's locals.
SyncRow(acc, row, curated_by_key, curated_by_venue) ==
    LET venue_id == Clean(Get(row, "venue_id"))
        canonical_venue == Clean(Get(row, "canonical_venue"))
        canonical_city == Clean(Get(row, "canonical_city"))
        canonical_country == Clean(Get(row, "canonical_country"))
        current_key == <<Norm(canonical_venue), Norm(canonical_city), Norm(canonical_country)>>
        venue_key == Norm(canonical_venue)
        candidates == Candidates(curated_by_venue, venue_key)
        kept == MasterRow(venue_id, canonical_venue, canonical_city, canonical_country)
    IN  IF current_key \in DOMAIN curated_by_key
        THEN ExactBranch(acc, kept, current_key)
        ELSE IF Len(candidates) = 1
        THEN SingleCandidateBranch(acc, venue_id, canonical_city, canonical_country,
                                   candidates[1])
        ELSE OtherwiseBranch(acc, kept, current_key, candidates)

\* The whole "for row in master_rows" loop.
RECURSIVE ExistingPass(_, _, _)
ExistingPass(rows, curated_by_key, curated_by_venue) ==
    IF rows = <<>>
    THEN [updated_master |-> <<>>, master_keys_seen |-> {},
          updated_rows |-> 0, ambiguous_rows |-> 0]
    ELSE SyncRow(ExistingPass(SubSeq(rows, 1, Len(rows) - 1), curated_by_key, curated_by_venue),
                 rows[Len(rows)], curated_by_key, curated_by_venue)

\* Faulty variant (C15 must reject it): every curated Triple is appended, seen or not
MissingCuratedUnfiltered(curated_iter, master_keys_seen) == Sorted(curated_iter)

\* Faulty variant (C16 must reject it): the unseen Triples are taken in the set's
\* iteration order, without sorting
MissingCuratedUnsorted(curated_iter, master_keys_seen) ==
    LET Unseen(t) == Key(t) \notin master_keys_seen
    IN  SelectSeq(curated_iter, Unseen)

\* Faulty variant (C25 must reject it): unseen Triples that share their venue
\* name with another curated Triple are held back as ambiguous
MissingCuratedBlocksShared(curated_iter, master_keys_seen) ==
    LET Unseen(t) ==
            /\ Key(t) \notin master_keys_seen
            /\ \A i \in 1..Len(curated_iter) :
                  Norm(curated_iter[i].venue) = Norm(t.venue) => curated_iter[i] = t
    IN  SelectSeq(Sorted(curated_iter), Unseen)

\* missing_curated = [t for t in sorted(curated, key=...) if t.key not in master_keys_seen]
MissingCurated(curated_iter, master_keys_seen) ==
    LET Unseen(t) == Key(t) \notin master_keys_seen
    IN  SelectSeq(Sorted(curated_iter), Unseen)

\* Body of "for triple in missing_curated"; acc holds updated_master, max_id, ...
AppendTriple(acc, triple) ==
    LET max_id == acc.max_id + 1
    IN  [acc EXCEPT
            !.max_id = max_id,
            !.updated_master =
                Append(@, MasterRow(FormatVenueId(max_id), triple.venue, triple.city, triple.country)),
            !.master_keys_seen = @ \cup {Key(triple)},
            !.appended_rows = @ + 1]

\* Faulty variant (C29 must reject it): the loop stops after its first Triple
AppendPassFirstOnly(acc, missing) ==
    IF missing = <<>> THEN acc ELSE AppendTriple(acc, missing[1])

\* The whole "for triple in missing_curated" loop, started from the locals in acc.
RECURSIVE AppendPass(_, _)
AppendPass(acc, missing) ==
    IF missing = <<>> THEN acc
    ELSE AppendTriple(AppendPass(acc, SubSeq(missing, 1, Len(missing) - 1)),
                      missing[Len(missing)])

\* sync_master: the returned (updated_master, SyncResult), and master_keys_seen at return
SyncMaster(rows, curated_iter) ==
    LET pass == ExistingPass(rows, CuratedByKey(curated_iter), BuildVenueToTriples(curated_iter))
        start == [updated_master |-> pass.updated_master,
                  master_keys_seen |-> pass.master_keys_seen,
                  max_id |-> ExtractMaxVenueId(pass.updated_master),
                  appended_rows |-> 0]
        done == AppendPass(start, MissingCurated(curated_iter, pass.master_keys_seen))
    IN  [updated_master |-> done.updated_master,
         result |-> [updated_rows |-> pass.updated_rows,
                     appended_rows |-> done.appended_rows,
                     ambiguous_rows |-> pass.ambiguous_rows],
         master_keys_seen |-> done.master_keys_seen]

\* The orders in which a set can be iterated.
IterationOrders(S) ==
    {s \in [1..Cardinality(S) -> S] : \A i, j \in 1..Cardinality(S) : s[i] = s[j] => i = j}

(***************************************************************************)
(* Inputs.  Registry cells are read from a CSV file and may carry          *)
(* surrounding blanks and any casing; curated Triples come out of          *)
(* _load_curated_triples and so are trimmed and non-empty.                 *)
(***************************************************************************)
\* "ven_000002 ", "ven_7", "ven_999999", " ven_8x"
IdStrings ==
    { <<"v", "e", "n", "_", "0", "0", "0", "0", "0", "2", " ">>,
      <<"v", "e", "n", "_", "7">>,
      <<"v", "e", "n", "_", "9", "9", "9", "9", "9", "9">>,
      <<" ", "v", "e", "n", "_", "8", "x">> }

Triple(venue, city, country) == [venue |-> venue, city |-> city, country |-> country]

\* ("A","A","A"), ("A","B","A"), ("a","A","A"), ("B","B","B")
CuratedUniverse ==
    { Triple(<<"A">>, <<"A">>, <<"A">>),
      Triple(<<"A">>, <<"B">>, <<"A">>),
      Triple(<<"a">>, <<"A">>, <<"A">>),
      Triple(<<"B">>, <<"B">>, <<"B">>) }

\* ("A","A","A"), (" a","b ","A"), ("A","C","")
RowTriples ==
    { Triple(<<"A">>, <<"A">>, <<"A">>),
      Triple(<<" ", "a">>, <<"b", " ">>, <<"A">>),
      Triple(<<"A">>, <<"C">>, <<>>) }

RegistryRows ==
    {MasterRow(id, t.venue, t.city, t.country) : id \in IdStrings, t \in RowTriples}

RowLists == UNION {[1..n -> RegistryRows] : n \in 0..MaxRows}

CuratedSets == {S \in SUBSET CuratedUniverse : Cardinality(S) <= MaxCurated}

\* Scenario 1 of the specification:
\* registry [(ven_000005, "Eden Gardens", "Kolkata", "India")]
Scenario1Registry ==
    <<MasterRow(<<"v", "e", "n", "_", "0", "0", "0", "0", "0", "5">>,
                <<"E", "d", "e", "n", " ", "G", "a", "r", "d", "e", "n", "s">>,
                <<"K", "o", "l", "k", "a", "t", "a">>,
                <<"I", "n", "d", "i", "a">>)>>

\* curated {("Eden Gardens", "Kolkata", "Bharat")}
Scenario1Curated ==
    { Triple(<<"E", "d", "e", "n", " ", "G", "a", "r", "d", "e", "n", "s">>,
             <<"K", "o", "l", "k", "a", "t", "a">>,
             <<"B", "h", "a", "r", "a", "t">>) }

\* Scenario 3 of the specification:
\* registry [(ven_000010, "County Ground", "Bristol", "England")]
Scenario3Registry ==
    <<MasterRow(<<"v", "e", "n", "_", "0", "0", "0", "0", "1", "0">>,
                <<"C", "o", "u", "n", "t", "y", " ", "G", "r", "o", "u", "n", "d">>,
                <<"B", "r", "i", "s", "t", "o", "l">>,
                <<"E", "n", "g", "l", "a", "n", "d">>)>>

\* curated {("County Ground", "Bristol", "England"), ("County Ground", "Taunton", "England")}
Scenario3Curated ==
    { Triple(<<"C", "o", "u", "n", "t", "y", " ", "G", "r", "o", "u", "n", "d">>,
             <<"B", "r", "i", "s", "t", "o", "l">>,
             <<"E", "n", "g", "l", "a", "n", "d">>),
      Triple(<<"C", "o", "u", "n", "t", "y", " ", "G", "r", "o", "u", "n", "d">>,
             <<"T", "a", "u", "n", "t", "o", "n">>,
             <<"E", "n", "g", "l", "a", "n", "d">>) }

NoResult == [updated_rows |-> 0, appended_rows |-> 0, ambiguous_rows |-> 0]

NoFile == [cols |-> {}, rows |-> <<>>]

NoArgs == [apply |-> FALSE, preview_limit |-> 0]

NoResync == [updated_master |-> <<>>, result |-> NoResult]

\* no history of the registry file is kept
NoHistory == [tracking |-> FALSE, ids |-> {}]

\* LOCAL_DATA_DIR does not exist
NoDirectory == [exists |-> FALSE, names |-> {}]

\* sync_venue_master_mapping.py is not running
SyncIdle ==
    /\ country_file = NoFile /\ alias_file = NoFile /\ master_file = NoFile
    /\ pre_file = NoFile
    /\ curated = {} /\ master_rows = <<>>
    /\ updated_master = <<>> /\ result = NoResult /\ seen = {}
    /\ resynced = NoResync
    /\ runs = 0
    /\ issued = NoHistory

\* check_cricsheet_updates.py is not running
UpdatesIdle ==
    /\ local_dir = NoDirectory /\ zip_namelist = {}
    /\ local_files = {} /\ cricsheet_files = {}
    /\ new_files = {} /\ removed_files = {}
    /\ files_to_download = <<>>

\* format_match_prompt has not been called
PromptIdle == data = <<>> /\ config = <<>> /\ prompt = <<>>

(***************************************************************************)
(* sync_master as a function: Init draws its two arguments, Sync applies   *)
(* it, SyncAgain applies it to its own output and the same curated set.    *)
(***************************************************************************)
InitSync ==
    /\ master_rows \in RowLists \cup {Scenario1Registry, Scenario3Registry}
    /\ curated \in CuratedSets \cup {Scenario1Curated, Scenario3Curated}
    /\ pc = "read"
    /\ country_file = NoFile /\ alias_file = NoFile /\ master_file = NoFile
    /\ pre_file = NoFile
    /\ args = NoArgs
    /\ updated_master = <<>> /\ result = NoResult /\ seen = {}
    /\ stdout = <<>>
    /\ resynced = NoResync
    /\ runs = 0
    /\ issued = NoHistory
    /\ UpdatesIdle
    /\ PromptIdle

\* updated_master, result = sync_master(master_rows, curated)
Sync ==
    /\ pc = "read"
    /\ \E curated_iter \in IterationOrders(curated) :
          LET r == SyncMaster(master_rows, curated_iter)
          IN  /\ updated_master' = r.updated_master
              /\ result' = r.result
              /\ seen' = r.master_keys_seen
    /\ pc' = "synced"
    /\ UNCHANGED <<country_file, alias_file, master_file, args, curated, master_rows,
                   stdout, pre_file, resynced, runs>>
    /\ UNCHANGED <<issued, updates_vars, prompt_vars>>

\* sync_master(updated_master, curated): reconciling the previous output again
SyncAgain ==
    /\ pc = "synced"
    /\ \E curated_iter \in IterationOrders(curated) :
          LET r == SyncMaster(updated_master, curated_iter)
          IN  resynced' = [updated_master |-> r.updated_master, result |-> r.result]
    /\ pc' = "resynced"
    /\ UNCHANGED <<country_file, alias_file, master_file, args, curated, master_rows,
                   updated_master, result, seen, stdout, pre_file, runs>>
    /\ UNCHANGED <<issued, updates_vars, prompt_vars>>

NextSync == Sync \/ SyncAgain

SpecSync == InitSync /\ [][NextSync]_vars

(***************************************************************************)
(* CSV files and the curated Triple loader.  A file is its header (cols)   *)
(* and its data rows, each a dict over the header; a file of zero bytes    *)
(* is NoFile.                                                              *)
(***************************************************************************)
\* _read_csv: [{k: (v or "") for k, v in row.items()} for row in reader]
ReadCsv(file) ==
    [i \in 1..Len(file.rows) |-> [k \in file.cols |-> OrEmpty(file.rows[i][k])]]

\* what csv.DictWriter(handle, fieldnames=MASTER_FIELDS) writes for one row
WrittenRow(row) ==
    [k \in {MASTER_FIELDS[i] : i \in 1..Len(MASTER_FIELDS)} |-> row[k]]

\* str.startswith
StartsWith(s, prefix) ==
    Len(s) >= Len(prefix) /\ SubSeq(s, 1, Len(prefix)) = prefix

Approved == <<"a", "p", "p", "r", "o", "v", "e", "d">>

\* row.get("review_status", "")
GetStatus(row) == IF "review_status" \in DOMAIN row THEN row["review_status"] ELSE <<>>

\* Faulty variant (C14 must reject it): only the exact status "approved" is accepted
ApprovedAliasRowExact(status) == Norm(status) = Approved

\* _approved_alias_row
ApprovedAliasRow(status) == StartsWith(Norm(status), Approved)

\* first loop of _load_curated_triples: the Triples of the primary mapping
CountryTriples(rows) ==
    {Triple(Clean(Get(rows[i], "venue")), Clean(Get(rows[i], "city")),
            Clean(Get(rows[i], "country"))) :
        i \in {j \in 1..Len(rows) :
                  /\ Clean(Get(rows[j], "venue")) # <<>>
                  /\ Clean(Get(rows[j], "city")) # <<>>
                  /\ Clean(Get(rows[j], "country")) # <<>>}}

\* second loop of _load_curated_triples: the Triples of approved alias rows
AliasTriples(rows) ==
    {Triple(Clean(Get(rows[i], "canonical_venue")), Clean(Get(rows[i], "canonical_city")),
            Clean(Get(rows[i], "canonical_country"))) :
        i \in {j \in 1..Len(rows) :
                  /\ ApprovedAliasRow(GetStatus(rows[j]))
                  /\ Clean(Get(rows[j], "canonical_venue")) # <<>>
                  /\ Clean(Get(rows[j], "canonical_city")) # <<>>
                  /\ Clean(Get(rows[j], "canonical_country")) # <<>>}}

\* _load_curated_triples: a set of Triple, equal when their three fields are equal
LoadCuratedTriples(country, alias) ==
    CountryTriples(ReadCsv(country)) \cup AliasTriples(ReadCsv(alias))

(***************************************************************************)
(* The files a run of main() may find.                                     *)
(***************************************************************************)
CountryRow(venue, city, country) == [venue |-> venue, city |-> city, country |-> country]

AliasRow(venue, city, country, status) ==
    [canonical_venue |-> venue, canonical_city |-> city,
     canonical_country |-> country, review_status |-> status]

\* a file with the given header, its rows cut down to that header
FileWith(cols, rows) ==
    [cols |-> cols, rows |-> [i \in 1..Len(rows) |-> [k \in cols |-> rows[i][k]]]]

COUNTRY_COLUMNS == {"venue", "city", "country"}

ALIAS_COLUMNS == {"canonical_venue", "canonical_city", "canonical_country", "review_status"}

MASTER_COLUMNS == {MASTER_FIELDS[i] : i \in 1..Len(MASTER_FIELDS)}

\* venue_country_mapping.csv: ("A","B","A") | (" A","A","A"), ("A","B","A"), ("B","B","")
\* | the first again under a header without "country"
CountryFiles ==
    { FileWith(COUNTRY_COLUMNS, <<CountryRow(<<"A">>, <<"B">>, <<"A">>)>>),
      FileWith(COUNTRY_COLUMNS, <<CountryRow(<<" ", "A">>, <<"A">>, <<"A">>),
                                  CountryRow(<<"A">>, <<"B">>, <<"A">>),
                                  CountryRow(<<"B">>, <<"B">>, <<>>)>>),
      FileWith({"venue", "city"}, <<CountryRow(<<"A">>, <<"B">>, <<"A">>)>>) }

\* venue_alias_mapping.csv: no rows | ("a","A","A","Approved "), ("B","B","B","x")
\* | ("B","B","B","approved_x") | the last again under a header without "review_status"
AliasFiles ==
    { FileWith(ALIAS_COLUMNS, <<>>),
      FileWith(ALIAS_COLUMNS,
               <<AliasRow(<<"a">>, <<"A">>, <<"A">>,
                          <<"A", "p", "p", "r", "o", "v", "e", "d", " ">>),
                 AliasRow(<<"B">>, <<"B">>, <<"B">>, <<"x">>)>>),
      FileWith(ALIAS_COLUMNS,
               <<AliasRow(<<"B">>, <<"B">>, <<"B">>,
                          <<"a", "p", "p", "r", "o", "v", "e", "d", "_", "x">>)>>),
      FileWith(ALIAS_COLUMNS \ {"review_status"},
               <<AliasRow(<<"B">>, <<"B">>, <<"B">>,
                          <<"a", "p", "p", "r", "o", "v", "e", "d", "_", "x">>)>>) }

\* registry rows on disk: ("ven_000002 ","A","A","A"), ("ven_999999"," a","C",""),
\* (" ven_8x","B","A","A")
DiskRows ==
    { MasterRow(<<"v", "e", "n", "_", "0", "0", "0", "0", "0", "2", " ">>,
                <<"A">>, <<"A">>, <<"A">>),
      MasterRow(<<"v", "e", "n", "_", "9", "9", "9", "9", "9", "9">>,
                <<" ", "a">>, <<"C">>, <<>>),
      MasterRow(<<" ", "v", "e", "n", "_", "8", "x">>, <<"B">>, <<"A">>, <<"A">>) }

\* venue_master_mapping.csv before the first run: up to MaxRows rows under the full
\* header, or at most one row under a header without "venue_id"
MasterFiles ==
    {FileWith(MASTER_COLUMNS, rows) :
        rows \in UNION {[1..n -> DiskRows] : n \in 0..MaxRows}}
    \cup {FileWith(MASTER_COLUMNS \ {"venue_id"}, rows) :
            rows \in UNION {[1..n -> DiskRows] : n \in 0..1}}

DEFAULT_PREVIEW_LIMIT == 10

\* the command lines: --apply | --preview-limit -1 | --preview-limit 0
\* | --preview-limit 1 | (defaults)
ArgChoices ==
    { [apply |-> TRUE, preview_limit |-> DEFAULT_PREVIEW_LIMIT],
      [apply |-> FALSE, preview_limit |-> -1],
      [apply |-> FALSE, preview_limit |-> 0],
      [apply |-> FALSE, preview_limit |-> 1],
      [apply |-> FALSE, preview_limit |-> DEFAULT_PREVIEW_LIMIT] }

\* the venue_ids in a registry file, trimmed, each with the normalized venue name
\* of its row
IdsOf(file) ==
    IF "venue_id" \in file.cols /\ "canonical_venue" \in file.cols
    THEN {[id |-> Strip(file.rows[i].venue_id), venue |-> Norm(file.rows[i].canonical_venue)] :
             i \in 1..Len(file.rows)}
    ELSE {}

\* the history extended with what the registry file holds now
Recorded(history, file) ==
    IF history.tracking
    THEN [history EXCEPT !.ids = @ \cup IdsOf(file)]
    ELSE history

(***************************************************************************)
(* main(): one action per step of the run.                                 *)
(***************************************************************************)
Running == pc \in {"start", "loaded", "read", "synced", "summarised", "open", "rows"}

Init ==
    /\ master_file \in MasterFiles
    /\ country_file \in CountryFiles
    /\ alias_file \in AliasFiles
    /\ pc = "idle"
    /\ pre_file = master_file
    /\ args = NoArgs
    /\ curated = {} /\ master_rows = <<>>
    /\ updated_master = <<>> /\ result = NoResult /\ seen = {}
    /\ stdout = <<>>
    /\ resynced = NoResync
    /\ runs = 0
    /\ issued = NoHistory
    /\ UpdatesIdle
    /\ PromptIdle

\* The curated seeds are edited between runs.
EditSeeds ==
    /\ pc \in {"done", "crashed"}
    /\ runs < MaxRuns
    /\ country_file' \in CountryFiles
    /\ alias_file' \in AliasFiles
    /\ pc' = "idle"
    /\ pre_file' = master_file
    /\ args' = NoArgs
    /\ curated' = {} /\ master_rows' = <<>>
    /\ updated_master' = <<>> /\ result' = NoResult /\ seen' = {}
    /\ stdout' = <<>>
    /\ UNCHANGED <<master_file, resynced, runs>>
    /\ UNCHANGED <<issued, updates_vars, prompt_vars>>

\* args = _build_parser().parse_args() and the three paths
ParseArgs ==
    /\ pc = "idle"
    /\ runs < MaxRuns
    /\ args' \in ArgChoices
    /\ runs' = runs + 1
    /\ pc' = "start"
    /\ UNCHANGED <<country_file, alias_file, master_file, curated, master_rows,
                   updated_master, result, seen, stdout, pre_file, resynced>>
    /\ UNCHANGED <<issued, updates_vars, prompt_vars>>

\* curated = _load_curated_triples(country_path, alias_path)
LoadCurated ==
    /\ pc = "start"
    /\ curated' = LoadCuratedTriples(country_file, alias_file)
    /\ pc' = "loaded"
    /\ UNCHANGED <<country_file, alias_file, master_file, args, master_rows,
                   updated_master, result, seen, stdout, pre_file, resynced, runs>>
    /\ UNCHANGED <<issued, updates_vars, prompt_vars>>

\* master_rows = _read_csv(master_path)
ReadMaster ==
    /\ pc = "loaded"
    /\ master_rows' = ReadCsv(master_file)
    /\ pc' = "read"
    /\ UNCHANGED <<country_file, alias_file, master_file, args, curated,
                   updated_master, result, seen, stdout, pre_file, resynced, runs>>
    /\ UNCHANGED <<issued, updates_vars, prompt_vars>>

\* the seven print() calls of the summary
PrintSummary ==
    /\ pc = "synced"
    /\ stdout' = Append(stdout,
          [line |-> "summary",
           curated_triples |-> Cardinality(curated),
           existing_master_rows |-> Len(master_rows),
           updated_master_rows |-> Len(updated_master),
           in_place_city_country_updates |-> result.updated_rows,
           appended_new_ids |-> result.appended_rows,
           ambiguous_venue_name_rows_skipped |-> result.ambiguous_rows])
    /\ pc' = "summarised"
    /\ UNCHANGED <<country_file, alias_file, master_file, args, curated, master_rows,
                   updated_master, result, seen, pre_file, resynced, runs>>
    /\ UNCHANGED <<issued, updates_vars, prompt_vars>>

\* Faulty variant (C26 must reject it): the preview takes the rows of the
\* updated registry from its top, existing rows included
AppendedPreviewFromTop == updated_master

\* appended_preview = [r for r in updated_master if _clean(r.get("venue_id")) not in original_ids]
AppendedPreview ==
    LET original_ids == {Clean(Get(master_rows[i], "venue_id")) : i \in 1..Len(master_rows)}
        IsNew(r) == Clean(Get(r, "venue_id")) \notin original_ids
    IN  SelectSeq(updated_master, IsNew)

\* appended_preview[: args.preview_limit], for preview_limit > 0
Slice(s, limit) == SubSeq(s, 1, IF Len(s) < limit THEN Len(s) ELSE limit)

\* what "if not args.apply:" prints
DryRunOutput ==
    (IF result.appended_rows > 0 /\ args.preview_limit > 0
     THEN <<[line |-> "appended_preview", rows |-> Slice(AppendedPreview, args.preview_limit)]>>
     ELSE <<>>)
    \o <<[line |-> "Dry run complete"]>>

\* Faulty variant (C7 must reject it): the dry run falls through to the write-back
DryRunReturnWrites ==
    /\ pc = "summarised"
    /\ ~args.apply
    /\ stdout' = stdout \o DryRunOutput
    /\ master_file' = [cols |-> MASTER_COLUMNS,
                       rows |-> [i \in 1..Len(updated_master) |-> WrittenRow(updated_master[i])]]
    /\ pc' = "done"
    /\ UNCHANGED <<country_file, alias_file, args, curated, master_rows,
                   updated_master, result, seen, pre_file, resynced, runs>>
    /\ UNCHANGED <<issued, updates_vars, prompt_vars>>

\* "if not args.apply:" ... return 0
DryRunReturn ==
    /\ pc = "summarised"
    /\ ~args.apply
    /\ stdout' = stdout \o DryRunOutput
    /\ pc' = "done"
    /\ UNCHANGED <<country_file, alias_file, master_file, args, curated, master_rows,
                   updated_master, result, seen, pre_file, resynced, runs>>
    /\ UNCHANGED <<issued, updates_vars, prompt_vars>>

\* _write_master: path.open("w") truncates the registry file
WriteOpen ==
    /\ pc = "summarised"
    /\ args.apply
    /\ master_file' = NoFile
    /\ pc' = "open"
    /\ UNCHANGED <<country_file, alias_file, args, curated, master_rows,
                   updated_master, result, seen, stdout, pre_file, resynced, runs>>
    /\ UNCHANGED <<issued, updates_vars, prompt_vars>>

\* Faulty variant (C17 must reject it): the file is patched, its old rows left in
\* place under the new header and only the rows beyond them written
WriteHeaderKeepsRows ==
    /\ pc = "open"
    /\ master_file' = [cols |-> MASTER_COLUMNS, rows |-> pre_file.rows]
    /\ pc' = "rows"
    /\ UNCHANGED <<country_file, alias_file, args, curated, master_rows,
                   updated_master, result, seen, stdout, pre_file, resynced, runs>>
    /\ UNCHANGED <<issued, updates_vars, prompt_vars>>

\* _write_master: writer.writeheader()
WriteHeader ==
    /\ pc = "open"
    /\ master_file' = [cols |-> MASTER_COLUMNS, rows |-> <<>>]
    /\ pc' = "rows"
    /\ UNCHANGED <<country_file, alias_file, args, curated, master_rows,
                   updated_master, result, seen, stdout, pre_file, resynced, runs>>
    /\ UNCHANGED <<issued, updates_vars, prompt_vars>>

\* _write_master: writer.writerows(rows), one row at a time
WriteRow ==
    /\ pc = "rows"
    /\ Len(master_file.rows) < Len(updated_master)
    /\ master_file' = [master_file EXCEPT
          !.rows = Append(@, WrittenRow(updated_master[Len(master_file.rows) + 1]))]
    /\ issued' = Recorded(issued, master_file')
    /\ UNCHANGED <<country_file, alias_file, args, pc, curated, master_rows,
                   updated_master, result, seen, stdout, pre_file, resynced, runs>>
    /\ UNCHANGED <<updates_vars, prompt_vars>>

\* _write_master returns (the file is closed), print("Applied updates ..."), return 0
WriteClose ==
    /\ pc = "rows"
    /\ Len(master_file.rows) = Len(updated_master)
    /\ stdout' = Append(stdout, [line |-> "Applied updates"])
    /\ pc' = "done"
    /\ UNCHANGED <<country_file, alias_file, master_file, args, curated, master_rows,
                   updated_master, result, seen, pre_file, resynced, runs>>
    /\ UNCHANGED <<issued, updates_vars, prompt_vars>>

\* The process dies (killed, power loss) at whatever step it has reached.
Crash ==
    /\ Running
    /\ pc' = "crashed"
    /\ UNCHANGED <<country_file, alias_file, master_file, args, curated, master_rows,
                   updated_master, result, seen, stdout, pre_file, resynced, runs>>
    /\ UNCHANGED <<issued, updates_vars, prompt_vars>>

Next ==
    \/ EditSeeds
    \/ ParseArgs
    \/ LoadCurated
    \/ ReadMaster
    \/ Sync
    \/ PrintSummary
    \/ DryRunReturn
    \/ WriteOpen
    \/ WriteHeader
    \/ WriteRow
    \/ WriteClose
    \/ Crash

Spec == Init /\ [][Next]_vars

\* registries under the full header whose venue_ids, trimmed, are pairwise distinct
DistinctMasterFiles ==
    {file \in MasterFiles :
        /\ file.cols = MASTER_COLUMNS
        /\ \A i, j \in 1..Len(file.rows) :
              Strip(file.rows[i].venue_id) = Strip(file.rows[j].venue_id) => i = j}

\* main() run repeatedly on a registry of pairwise distinct venue_ids, the ids the
\* registry file holds being recorded from the start
InitHistory ==
    /\ master_file \in DistinctMasterFiles
    /\ country_file \in CountryFiles
    /\ alias_file \in AliasFiles
    /\ pc = "idle"
    /\ pre_file = master_file
    /\ args = NoArgs
    /\ curated = {} /\ master_rows = <<>>
    /\ updated_master = <<>> /\ result = NoResult /\ seen = {}
    /\ stdout = <<>>
    /\ resynced = NoResync
    /\ runs = 0
    /\ issued = [tracking |-> TRUE, ids |-> IdsOf(master_file)]
    /\ UpdatesIdle
    /\ PromptIdle

SpecHistory == InitHistory /\ [][Next]_vars

(***************************************************************************)
(* check_cricsheet_updates.py: main(), one action per step.  File names    *)
(* are text; the archive and the local directory are sets of names.        *)
(***************************************************************************)
MaxLimit == 2       \* largest N of --limit N

DotJson == <<".", "j", "s", "o", "n">>

MacOsx == <<"_", "_", "M", "A", "C", "O", "S", "X">>

\* str.endswith
EndsWith(s, suffix) ==
    Len(s) >= Len(suffix) /\ SubSeq(s, Len(s) - Len(suffix) + 1, Len(s)) = suffix

\* Path.name: the text after the last "/"
RECURSIVE Basename(_)
Basename(name) ==
    IF \E i \in 1..Len(name) : name[i] = "/"
    THEN Basename(Tail(name))
    ELSE name

\* sorted() of a set of str
SortedNames(S) ==
    CHOOSE s \in IterationOrders(S) :
        \A i, j \in 1..Len(s) : i < j => StrLess(s[i], s[j])

Min(a, b) == IF a <= b THEN a ELSE b

\* lst[:n] for a Python int n, negative n counting from the end
PrefixSlice(lst, n) ==
    IF n >= 0 THEN SubSeq(lst, 1, Min(n, Len(lst)))
    ELSE SubSeq(lst, 1, Max(Len(lst) + n, 0))

\* args.limit: None by default, else the int given
NoLimit == [none |-> TRUE]

Limit(n) == [none |-> FALSE, n |-> n]

\* "if args.limit:" -- None and 0 are falsy
Truthy(limit) == ~limit.none /\ limit.n # 0

\* "1.json", "2.json", "9.json", "a.txt"
LocalNames ==
    { <<"1", ".", "j", "s", "o", "n">>,
      <<"2", ".", "j", "s", "o", "n">>,
      <<"9", ".", "j", "s", "o", "n">>,
      <<"a", ".", "t", "x", "t">> }

\* "1.json", "2.json", "3.json", "a.txt", "__MACOSX/1.json"
ZipNames ==
    { <<"1", ".", "j", "s", "o", "n">>,
      <<"2", ".", "j", "s", "o", "n">>,
      <<"3", ".", "j", "s", "o", "n">>,
      <<"a", ".", "t", "x", "t">>,
      <<"_", "_", "M", "A", "C", "O", "S", "X", "/", "1", ".", "j", "s", "o", "n">> }

\* the command lines: [--download] [--limit N], N from -1 to MaxLimit
UpdatesArgChoices ==
    {[download |-> d, limit |-> l] :
        d \in BOOLEAN, l \in {NoLimit} \cup {Limit(n) : n \in -1..MaxLimit}}

InitUpdates ==
    /\ local_dir \in {NoDirectory} \cup {[exists |-> TRUE, names |-> S] : S \in SUBSET LocalNames}
    /\ zip_namelist \in SUBSET ZipNames
    /\ local_files = {} /\ cricsheet_files = {}
    /\ new_files = {} /\ removed_files = {}
    /\ files_to_download = <<>>
    /\ pc = "parse"
    /\ args = NoArgs
    /\ stdout = <<>>
    /\ SyncIdle
    /\ PromptIdle

\* args = parser.parse_args()
UpdatesParseArgs ==
    /\ pc = "parse"
    /\ args' \in UpdatesArgChoices
    /\ pc' = "parsed"
    /\ UNCHANGED <<stdout, updates_vars, sync_vars, prompt_vars>>

\* local_files = get_local_files(): the directory is created when missing
GetLocalFiles ==
    /\ pc = "parsed"
    /\ IF ~local_dir.exists
       THEN /\ local_dir' = [exists |-> TRUE, names |-> {}]
            /\ local_files' = {}
       ELSE /\ local_files' = {name \in local_dir.names : EndsWith(name, DotJson)}
            /\ UNCHANGED local_dir
    /\ pc' = "local"
    /\ UNCHANGED <<args, stdout, zip_namelist, cricsheet_files, new_files, removed_files,
                   files_to_download, sync_vars, prompt_vars>>

\* cricsheet_files, zip_data = get_cricsheet_files()
GetCricsheetFiles ==
    /\ pc = "local"
    /\ cricsheet_files' =
          {name \in zip_namelist : EndsWith(name, DotJson) /\ ~StartsWith(name, MacOsx)}
    /\ pc' = "listed"
    /\ UNCHANGED <<args, stdout, local_dir, zip_namelist, local_files, new_files,
                   removed_files, files_to_download, sync_vars, prompt_vars>>

\* get_cricsheet_files: the request or the archive fails, sys.exit(1)
GetCricsheetFilesFails ==
    /\ pc = "local"
    /\ stdout' = Append(stdout, [line |-> "Failed to fetch Cricsheet zip file"])
    /\ pc' = "exited"
    /\ UNCHANGED <<args, updates_vars, sync_vars, prompt_vars>>

\* "if len(cricsheet_files) == 0:" ... sys.exit(1)
ExitNoFiles ==
    /\ pc = "listed"
    /\ cricsheet_files = {}
    /\ stdout' = Append(stdout, [line |-> "Error: Found 0 files on Cricsheet"])
    /\ pc' = "exited"
    /\ UNCHANGED <<args, updates_vars, sync_vars, prompt_vars>>

\* new_files, removed_files and the four lines of the summary
Compare ==
    /\ pc = "listed"
    /\ cricsheet_files # {}
    /\ new_files' = cricsheet_files \ local_files
    /\ removed_files' = local_files \ cricsheet_files
    /\ stdout' = Append(stdout,
          [line |-> "Summary",
           local_files |-> Cardinality(local_files),
           cricsheet_files |-> Cardinality(cricsheet_files),
           new_files |-> Cardinality(cricsheet_files \ local_files),
           removed_files |-> Cardinality(local_files \ cricsheet_files)])
    /\ pc' = "compared"
    /\ UNCHANGED <<args, local_dir, zip_namelist, local_files, cricsheet_files,
                   files_to_download, sync_vars, prompt_vars>>

\* "if not new_files and not removed_files:" ... return
ReturnUpToDate ==
    /\ pc = "compared"
    /\ new_files = {} /\ removed_files = {}
    /\ stdout' = Append(stdout, [line |-> "No changes detected"])
    /\ pc' = "returned"
    /\ UNCHANGED <<args, updates_vars, sync_vars, prompt_vars>>

\* the names printed for a set: sorted(files)[:min(sample_size, len(files))] and the rest's count
Sample(label, files, sample_size) ==
    [line |-> label,
     total |-> Cardinality(files),
     names |-> PrefixSlice(SortedNames(files), Min(sample_size, Cardinality(files))),
     more |-> Max(Cardinality(files) - Min(sample_size, Cardinality(files)), 0)]

\* the warning, the sample of new files and the sample of removed files
Report ==
    /\ pc = "compared"
    /\ ~(new_files = {} /\ removed_files = {})
    /\ stdout' = stdout
          \o (IF new_files = {} /\ removed_files # {}
              THEN <<[line |-> "No new files, but some local files are no longer on Cricsheet"]>>
              ELSE <<>>)
          \o <<Sample("New files available", new_files, 10)>>
          \o (IF removed_files # {}
              THEN <<Sample("Files removed from Cricsheet", removed_files, 5)>>
              ELSE <<>>)
    /\ pc' = "reported"
    /\ UNCHANGED <<args, updates_vars, sync_vars, prompt_vars>>

\* "if args.download:" files_to_download = list(new_files), cut to args.limit when
\* args.limit is truthy; list() takes the set in its iteration order; the
\* "Extracting ... files" line is printed and extract_files is about to be called
SelectDownloads ==
    /\ pc = "reported"
    /\ args.download
    /\ \E listed \in IterationOrders(new_files) :
          files_to_download' =
              IF Truthy(args.limit) THEN PrefixSlice(listed, args.limit.n) ELSE listed
    /\ stdout' = Append(stdout, [line |-> "Extracting", files |-> Len(files_to_download')])
    /\ pc' = "selected"
    /\ UNCHANGED <<args, local_dir, zip_namelist, local_files, cricsheet_files,
                   new_files, removed_files, sync_vars, prompt_vars>>

\* extract_files(zip_data, files_to_download, LOCAL_DATA_DIR) and the closing prints
ExtractFiles ==
    /\ pc = "selected"
    /\ local_dir' = [local_dir EXCEPT
          !.names = @ \cup {Basename(files_to_download[i]) : i \in 1..Len(files_to_download)}]
    /\ stdout' = stdout
          \o <<[line |-> "Extracted", success_count |-> Len(files_to_download),
                of |-> Len(files_to_download)]>>
          \o (IF Len(files_to_download) > 0 THEN <<[line |-> "Next steps"]>> ELSE <<>>)
    /\ pc' = "returned"
    /\ UNCHANGED <<args, zip_namelist, local_files, cricsheet_files, new_files,
                   removed_files, files_to_download, sync_vars, prompt_vars>>

\* "else:" the hint to run with --download
CheckOnly ==
    /\ pc = "reported"
    /\ ~args.download
    /\ stdout' = stdout
          \o <<[line |-> "To download new files, run"]>>
          \o (IF Cardinality(new_files) > 100
              THEN <<[line |-> "Or limit downloads"]>>
              ELSE <<>>)
    /\ pc' = "returned"
    /\ UNCHANGED <<args, updates_vars, sync_vars, prompt_vars>>

NextUpdates ==
    \/ UpdatesParseArgs
    \/ GetLocalFiles
    \/ GetCricsheetFiles
    \/ GetCricsheetFilesFails
    \/ ExitNoFiles
    \/ Compare
    \/ ReturnUpToDate
    \/ Report
    \/ SelectDownloads
    \/ ExtractFiles
    \/ CheckOnly

SpecUpdates == InitUpdates /\ [][NextUpdates]_vars

(***************************************************************************)
(* generate_match_narrative.py: format_match_prompt.  The prompt is the    *)
(* template chosen by config.type around match_details, and match_details  *)
(* is the list of its lines, each line a record of what it interpolates.   *)
(***************************************************************************)
MaxWickets == 41     \* key wickets in the match data
MaxPerformers == 7   \* top batters, and top bowlers, in the match data

\* a value Python treats as false: None or ""
Falsy(value) == value = None \/ value = <<>>

\* a or b
Or(a, b) == IF Falsy(a) THEN b ELSE a

\* "Tie/No Result"
TieNoResult == <<"T", "i", "e", "/", "N", "o", " ", "R", "e", "s", "u", "l", "t">>

\* "N/A"
NotAvailable == <<"N", "/", "A">>

\* the match header of match_details
HeaderLine(info) ==
    [kind |-> "header",
     event_name |-> info.event_name,
     venue |-> info.venue,
     city |-> info.city,
     match_start_date |-> info.match_start_date,
     team_1 |-> info.team_1,
     team_2 |-> info.team_2,
     toss_winner |-> info.toss_winner,
     toss_decision |-> info.toss_decision,
     result_type |-> info.result_type,
     winner |-> Or(Or(info.winner, info.winner_after_eliminator), TieNoResult),
     margin |-> IF Falsy(info.result_description) THEN NotAvailable
                ELSE info.result_description,
     players_of_match |-> info.players_of_match]

\* one line of "Innings Summaries"
InningsLine(inning) ==
    [kind |-> "innings",
     innings_number |-> inning.innings_number,
     super_over |-> inning.is_super_over,
     batting_team |-> inning.batting_team,
     runs_total |-> inning.runs_total,
     wickets_fallen |-> inning.wickets_fallen,
     recorded_over_count |-> inning.recorded_over_count]

\* n / d rounded to the nearest integer, for n >= 0 and d > 0
Rounded(n, d) == (2 * n + d) \div (2 * d)

\* one line of "Top Batting Performances"; the strike rate f"{sr:.1f}" in tenths
BatterLine(batter) ==
    [kind |-> "batter",
     batter |-> batter.batter,
     runs_in_match |-> batter.runs_in_match,
     innings_scores |-> batter.innings_scores,
     balls_faced_in_match |-> batter.balls_faced_in_match,
     fours_in_match |-> batter.fours_in_match,
     sixes_in_match |-> batter.sixes_in_match,
     sr_tenths |-> IF batter.balls_faced_in_match > 0
                   THEN Rounded(batter.runs_in_match * 1000, batter.balls_faced_in_match)
                   ELSE 0]

\* one line of "Top Bowling Performances"; the economy f"{economy:.2f}" in hundredths
BowlerLine(bowler) ==
    [kind |-> "bowler",
     bowler |-> bowler.bowler,
     wickets_in_match |-> bowler.wickets_in_match,
     runs_conceded_in_match |-> bowler.runs_conceded_in_match,
     overs |-> bowler.balls_bowled_in_match \div 6,
     balls |-> bowler.balls_bowled_in_match % 6,
     economy_hundredths |-> IF bowler.balls_bowled_in_match > 0
                            THEN Rounded(bowler.runs_conceded_in_match * 600,
                                         bowler.balls_bowled_in_match)
                            ELSE 0,
     innings_details |-> bowler.innings_details]

\* the " (c X & Y)" part of a wicket line: the fielders named
Fielders(wicket) ==
    IF Falsy(wicket.wicket_fielder_1) THEN <<>>
    ELSE <<wicket.wicket_fielder_1>>
         \o (IF Falsy(wicket.wicket_fielder_2) THEN <<>> ELSE <<wicket.wicket_fielder_2>>)

\* one line of "Key Wickets"
WicketLine(wicket) ==
    [kind |-> "wicket",
     innings_number |-> wicket.innings_number,
     over_number |-> wicket.over_number,
     ball_in_over |-> wicket.ball_in_over,
     wicket_player_out |-> wicket.wicket_player_out,
     wicket_kind |-> wicket.wicket_kind,
     bowler |-> wicket.bowler,
     fielders |-> Fielders(wicket)]

\* match_details as built by format_match_prompt
MatchDetails(d) ==
    LET top_batters == PrefixSlice(d.top_batters, 6)
        top_bowlers == PrefixSlice(d.top_bowlers, 6)
        key_wickets == PrefixSlice(d.key_wickets, 40)
    IN  <<HeaderLine(d.match_info)>>
        \o [i \in 1..Len(d.innings) |-> InningsLine(d.innings[i])]
        \o <<[kind |-> "Top Batting Performances"]>>
        \o [i \in 1..Len(top_batters) |-> BatterLine(top_batters[i])]
        \o <<[kind |-> "Top Bowling Performances"]>>
        \o [i \in 1..Len(top_bowlers) |-> BowlerLine(top_bowlers[i])]
        \o <<[kind |-> "Key Wickets", total_dismissals |-> Len(d.key_wickets)]>>
        \o [i \in 1..Len(key_wickets) |-> WicketLine(key_wickets[i])]

\* format_match_prompt(data, config)
FormatMatchPrompt(d, c) ==
    IF c.type = "brief"
    THEN [template |-> "brief", match_details |-> MatchDetails(d), closing |-> <<>>]
    ELSE [template |-> "full", match_details |-> MatchDetails(d),
          closing |-> <<"Write the narrative now:">>]

\* DescriptionConfig.get_config
GetConfig(desc_type) ==
    IF desc_type = "brief"
    THEN [type |-> "brief", max_tokens |-> 200, temperature_tenths |-> 5]
    ELSE [type |-> "full", max_tokens |-> 1500, temperature_tenths |-> 7]

(***************************************************************************)
(* Match data handed to format_match_prompt.                               *)
(***************************************************************************)
\* match_info of a match won outright, won after an eliminator, and without a result
InfoChoices ==
    {[event_name |-> "Event", venue |-> "Venue", city |-> "City",
      match_start_date |-> "2024-01-01", team_1 |-> "Team 1", team_2 |-> "Team 2",
      toss_winner |-> "Team 1", toss_decision |-> "bat", result_type |-> r.result_type,
      winner |-> r.winner, winner_after_eliminator |-> r.winner_after_eliminator,
      result_description |-> r.result_description, players_of_match |-> "Player" ] :
        r \in {[result_type |-> "win", winner |-> <<"A">>, winner_after_eliminator |-> None,
                result_description |-> <<"5", " ", "r", "u", "n", "s">>],
               [result_type |-> "tie", winner |-> None, winner_after_eliminator |-> <<"B">>,
                result_description |-> None],
               [result_type |-> "no result", winner |-> None,
                winner_after_eliminator |-> None, result_description |-> <<>>]}}

\* no innings, or a full innings followed by a super over
InningsChoices ==
    { <<>>,
      <<[innings_number |-> 1, is_super_over |-> FALSE, batting_team |-> "Team 1",
         runs_total |-> 150, wickets_fallen |-> 10, recorded_over_count |-> 20],
        [innings_number |-> 3, is_super_over |-> TRUE, batting_team |-> "Team 2",
         runs_total |-> 12, wickets_fallen |-> 1, recorded_over_count |-> 1]>> }

\* the i-th batter: the first faced no ball, the others score at 150.0
Batter(i) ==
    [batter |-> <<"B">> \o Decimal(i - 1), runs_in_match |-> 12 * (i - 1),
     innings_scores |-> <<12 * (i - 1)>>, balls_faced_in_match |-> 8 * (i - 1),
     fours_in_match |-> i - 1, sixes_in_match |-> 0]

\* the i-th bowler: the first bowled no ball, the others concede 6.50 an over
Bowler(i) ==
    [bowler |-> <<"b">> \o Decimal(i - 1), wickets_in_match |-> i - 1,
     runs_conceded_in_match |-> 13 * (i - 1), balls_bowled_in_match |-> 12 * (i - 1) ,
     innings_details |-> <<i - 1>>]

\* the i-th wicket: caught by nobody, by one fielder, by two fielders in turn
Wicket(i) ==
    [innings_number |-> 1, over_number |-> i - 1, ball_in_over |-> 1,
     wicket_player_out |-> <<"P">> \o Decimal(i - 1), wicket_kind |-> "caught",
     bowler |-> <<"b">>,
     wicket_fielder_1 |-> IF i % 3 = 1 THEN None ELSE <<"A">>,
     wicket_fielder_2 |-> IF i % 3 = 0 THEN <<"C">> ELSE None]

MatchData ==
    {[match_info |-> info, innings |-> innings,
      top_batters |-> [i \in 1..nb |-> Batter(i)],
      top_bowlers |-> [i \in 1..nw |-> Bowler(i)],
      key_wickets |-> [i \in 1..nk |-> Wicket(i)]] :
        info \in InfoChoices, innings \in InningsChoices,
        nb \in 0..MaxPerformers, nw \in 0..MaxPerformers, nk \in 0..MaxWickets}

InitPrompt ==
    /\ data \in MatchData
    /\ config \in {GetConfig("brief"), GetConfig("full")}
    /\ prompt = <<>>
    /\ pc = "data"
    /\ args = NoArgs
    /\ stdout = <<>>
    /\ SyncIdle
    /\ UpdatesIdle

\* prompt = format_match_prompt(data, config)
FormatPrompt ==
    /\ pc = "data"
    /\ prompt' = FormatMatchPrompt(data, config)
    /\ pc' = "prompted"
    /\ UNCHANGED <<args, stdout, data, config, sync_vars, updates_vars>>

NextPrompt == FormatPrompt

SpecPrompt == InitPrompt /\ [][NextPrompt]_vars

(***************************************************************************)
(* Vocabulary of the properties of sync_master.                            *)
(***************************************************************************)
Synced == pc \in {"synced", "resynced"}

Existing == 1..Len(master_rows)

Appended == (Len(master_rows) + 1)..Len(updated_master)

\* the normalized (venue, city, country) key of a registry row
RowKey(row) ==
    <<Norm(row.canonical_venue), Norm(row.canonical_city), Norm(row.canonical_country)>>

RowAsTriple(row) == Triple(row.canonical_venue, row.canonical_city, row.canonical_country)

\* the curated Triples sharing the row's normalized venue name
VenueCandidates(row) == {t \in curated : Norm(t.venue) = Norm(row.canonical_venue)}

ExactMatch(row) == \E t \in curated : Key(t) = RowKey(row)

\* numeric suffixes of the ids of the given rows that read "ven_" + digits once trimmed
Suffixes(rows) ==
    {Group1Int(Clean(rows[i].venue_id)) :
        i \in {j \in 1..Len(rows) : PatternMatch(Clean(rows[j].venue_id))}}

HighWater(rows) == CHOOSE m \in Suffixes(rows) \cup {0} : \A x \in Suffixes(rows) : x <= m

\* the curated Triples whose key no existing row bears after the update pass
UnseenTriples ==
    {t \in curated : \A i \in Existing : RowKey(updated_master[i]) # Key(t)}

\* "ven_" followed by exactly six decimal digits
SixDigitForm(venue_id) == PatternMatch(venue_id) /\ Len(venue_id) = 10

(***************************************************************************)
(* C1.  ID stability: at every position of the input registry the output   *)
(* row carries the trimmed venue_id of the input row, whether the row was  *)
(* kept by exact key match or updated from its single candidate.           *)
(***************************************************************************)
C1_IdStability ==
    Synced =>
        /\ Len(updated_master) >= Len(master_rows)
        /\ \A i \in Existing : updated_master[i].venue_id = Clean(master_rows[i].venue_id)

\* one row kept by exact match, another rewritten from its single candidate,
\* the latter with an id that trimming changes
C1_Witness ==
    /\ pc = "synced"
    /\ \E i, j \in Existing :
          /\ ExactMatch(master_rows[i])
          /\ ~ExactMatch(master_rows[j])
          /\ Cardinality(VenueCandidates(master_rows[j])) = 1
          /\ RowKey(updated_master[j]) # RowKey(master_rows[j])
          /\ Clean(master_rows[j].venue_id) # master_rows[j].venue_id

(***************************************************************************)
(* C2.  Idempotence: reconciling the output of sync_master against the     *)
(* same curated set again reports updated_rows = 0 and appended_rows = 0.  *)
(***************************************************************************)
C2_Idempotence ==
    pc = "resynced" =>
        /\ resynced.result.updated_rows = 0
        /\ resynced.result.appended_rows = 0

\* the first reconciliation both updated a row in place and appended one
C2_Witness ==
    /\ pc = "resynced"
    /\ result.updated_rows > 0
    /\ result.appended_rows > 0

(***************************************************************************)
(* C3.  Uniqueness: if the input rows have pairwise distinct normalized    *)
(* keys, the output holds at most one row per curated Triple key.          *)
(***************************************************************************)
C3_Uniqueness ==
    (/\ Synced
     /\ \A i, j \in Existing : RowKey(master_rows[i]) = RowKey(master_rows[j]) => i = j)
    => \A t \in curated :
          \A i, j \in 1..Len(updated_master) :
              (RowKey(updated_master[i]) = Key(t) /\ RowKey(updated_master[j]) = Key(t))
              => i = j

(***************************************************************************)
(* C4.  Ambiguity safety: an existing row whose venue name has two or more *)
(* curated candidates keeps its city and country.  As stated (identical to *)
(* the input values) and as amended (identical to the trimmed input        *)
(* values).                                                                *)
(***************************************************************************)
C4_AmbiguitySafetyAsStated ==
    Synced =>
        \A i \in Existing :
            Cardinality(VenueCandidates(master_rows[i])) >= 2 =>
                /\ updated_master[i].canonical_city = master_rows[i].canonical_city
                /\ updated_master[i].canonical_country = master_rows[i].canonical_country

C4_AmbiguitySafety ==
    Synced =>
        \A i \in Existing :
            Cardinality(VenueCandidates(master_rows[i])) >= 2 =>
                /\ updated_master[i].canonical_city = Clean(master_rows[i].canonical_city)
                /\ updated_master[i].canonical_country = Clean(master_rows[i].canonical_country)

\* a row without exact match and with two candidates was counted ambiguous
C4_Witness ==
    /\ pc = "synced"
    /\ result.ambiguous_rows > 0
    /\ \E i \in Existing :
          /\ ~ExactMatch(master_rows[i])
          /\ Cardinality({Key(t) : t \in VenueCandidates(master_rows[i])}) >= 2

C6_SixDigitIds ==
    Synced => \A i \in Appended : SixDigitForm(updated_master[i].venue_id)

(***************************************************************************)
(* C10.  A malformed venue_id is not fatal: the row stays, its id stays,   *)
(* and the id adds nothing to the high-water mark new ids start from.      *)
(* As stated, malformed means: not "ven_" + six digits.  As amended,       *)
(* malformed means: not "ven_" + one or more digits, once trimmed.         *)
(***************************************************************************)
C10_MalformedIdAsStated ==
    Synced =>
        LET wellformed == SelectSeq(master_rows,
                                    LAMBDA r : SixDigitForm(Clean(r.venue_id)))
        IN  /\ Len(updated_master) >= Len(master_rows)
            /\ \A i \in Existing :
                  ~SixDigitForm(Clean(master_rows[i].venue_id)) =>
                      updated_master[i].venue_id = Clean(master_rows[i].venue_id)
            /\ Appended # {} =>
                  Group1Int(updated_master[Len(master_rows) + 1].venue_id)
                      = HighWater(wellformed) + 1

C10_MalformedId ==
    Synced =>
        LET wellformed == SelectSeq(master_rows,
                                    LAMBDA r : PatternMatch(Clean(r.venue_id)))
        IN  /\ Len(updated_master) >= Len(master_rows)
            /\ \A i \in Existing :
                  ~PatternMatch(Clean(master_rows[i].venue_id)) =>
                      updated_master[i].venue_id = Clean(master_rows[i].venue_id)
            /\ Appended # {} =>
                  Group1Int(updated_master[Len(master_rows) + 1].venue_id)
                      = HighWater(wellformed) + 1

\* a registry with a malformed id and a well-formed one, and a row appended
C10_Witness ==
    /\ pc = "synced"
    /\ Appended # {}
    /\ \E i, j \in Existing :
          /\ ~PatternMatch(Clean(master_rows[i].venue_id))
          /\ PatternMatch(Clean(master_rows[j].venue_id))

(***************************************************************************)
(* C11.  sync_master never deletes or reorders registry rows: the output   *)
(* has len(input) + appended_rows rows, output row i is input row i (same  *)
(* id, same normalized venue name), and a row whose venue name has no      *)
(* curated candidate keeps its four fields.  As stated (the fields are     *)
(* unchanged) and as amended (the fields are the trimmed input fields).    *)
(***************************************************************************)
C11_NoDeletionAsStated ==
    Synced =>
        /\ Len(updated_master) = Len(master_rows) + result.appended_rows
        /\ \A i \in Existing :
              /\ updated_master[i].venue_id = Clean(master_rows[i].venue_id)
              /\ Norm(updated_master[i].canonical_venue) = Norm(master_rows[i].canonical_venue)
              /\ VenueCandidates(master_rows[i]) = {} => updated_master[i] = master_rows[i]

C11_NoDeletion ==
    Synced =>
        /\ Len(updated_master) = Len(master_rows) + result.appended_rows
        /\ \A i \in Existing :
              /\ updated_master[i].venue_id = Clean(master_rows[i].venue_id)
              /\ Norm(updated_master[i].canonical_venue) = Norm(master_rows[i].canonical_venue)
              /\ VenueCandidates(master_rows[i]) = {} =>
                    \A k \in DOMAIN master_rows[i] :
                        updated_master[i][k] = Strip(master_rows[i][k])

\* a row without any candidate, next to a curated Triple that gets appended
C11_Witness ==
    /\ pc = "synced"
    /\ result.appended_rows > 0
    /\ \E i \in Existing :
          /\ VenueCandidates(master_rows[i]) = {}
          /\ updated_master[i] # master_rows[i]

(***************************************************************************)
(* C12.  Scenario 3: registry [(ven_000010, County Ground, Bristol,        *)
(* England)], curated {(County Ground, Bristol, England), (County Ground,  *)
(* Taunton, England)}.  As stated: ambiguous_rows = 1 and the row is       *)
(* unchanged.  As amended: ambiguous_rows = 0 and the row is unchanged.    *)
(***************************************************************************)
Scenario3 == master_rows = Scenario3Registry /\ curated = Scenario3Curated

C12_Scenario3AsStated ==
    (Synced /\ Scenario3) =>
        /\ result.ambiguous_rows = 1
        /\ updated_master[1] = master_rows[1]

C12_Scenario3 ==
    (Synced /\ Scenario3) =>
        /\ result.ambiguous_rows = 0
        /\ updated_master[1] = master_rows[1]

\* scenario 3 has been reconciled
C12_Witness == pc = "synced" /\ Scenario3


(***************************************************************************)
(* C15.  As stated: a row is appended for a curated Triple only when the   *)
(* Triple's normalized venue name is borne by no registry row after the    *)
(* update pass.                                                            *)
(***************************************************************************)
C15_AppendOnlyNewVenueNameAsStated ==
    Synced =>
        \A j \in Appended : \A i \in Existing :
            Norm(updated_master[j].canonical_venue) # Norm(updated_master[i].canonical_venue)

(***************************************************************************)
(* C15.  A row is appended for a curated Triple only when the Triple's     *)
(* normalized (venue, city, country) key is borne by no registry row after *)
(* the update pass; every appended row is a curated Triple.                *)
(***************************************************************************)
C15_AppendOnlyUnseenKey ==
    Synced =>
        \A j \in Appended :
            /\ RowAsTriple(updated_master[j]) \in curated
            /\ \A i \in Existing : RowKey(updated_master[j]) # RowKey(updated_master[i])

\* a reconciliation that appended a Triple whose venue name an existing row bears,
\* and held back a Triple whose full key an existing row bears
C15_Witness ==
    /\ pc = "synced"
    /\ \E j \in Appended : \E i \in Existing :
          Norm(updated_master[j].canonical_venue) = Norm(updated_master[i].canonical_venue)
    /\ \E t \in curated : \E i \in Existing : Key(t) = RowKey(updated_master[i])

(***************************************************************************)
(* C16.  Determinism: whatever order the curated set is iterated in,       *)
(* sync_master returns the same output rows, the same venue_ids and the    *)
(* same counts for the same registry list and curated set.                 *)
(***************************************************************************)
C16_Determinism ==
    pc = "synced" =>
        \A curated_iter \in IterationOrders(curated) :
            /\ SyncMaster(master_rows, curated_iter).updated_master = updated_master
            /\ SyncMaster(master_rows, curated_iter).result = result

\* a reconciliation of a set with several iteration orders, two of its Triples
\* appended after a registry row that was kept
C16_Witness ==
    /\ pc = "synced"
    /\ Cardinality(curated) >= 2
    /\ result.appended_rows >= 2
    /\ Len(master_rows) >= 1

(***************************************************************************)
(* C21.  An existing row without exact-key match and with exactly one      *)
(* curated candidate for its normalized venue name comes out with the      *)
(* candidate's city and country and with its own venue_id; the candidate's *)
(* key is marked seen and the candidate is not appended as a new row.      *)
(* Scenario 1 gives (ven_000005, Eden Gardens, Kolkata, Bharat) and one    *)
(* update.  As stated the venue_id is the input cell; as amended it is the *)
(* input cell with surrounding whitespace trimmed.                         *)
(***************************************************************************)
SingleCandidate(row) == ~ExactMatch(row) /\ Cardinality(VenueCandidates(row)) = 1

TheCandidate(row) == CHOOSE t \in VenueCandidates(row) : TRUE

Scenario1 == master_rows = Scenario1Registry /\ curated = Scenario1Curated

Scenario1Expected ==
    /\ updated_master =
          <<MasterRow(Scenario1Registry[1].venue_id,
                      TheCandidate(Scenario1Registry[1]).venue,
                      TheCandidate(Scenario1Registry[1]).city,
                      TheCandidate(Scenario1Registry[1]).country)>>
    /\ result.updated_rows = 1

C21_SingleCandidateAsStated ==
    Synced =>
        \A i \in Existing :
            SingleCandidate(master_rows[i]) =>
                /\ updated_master[i].canonical_city = TheCandidate(master_rows[i]).city
                /\ updated_master[i].canonical_country = TheCandidate(master_rows[i]).country
                /\ updated_master[i].venue_id = master_rows[i].venue_id
                /\ Key(TheCandidate(master_rows[i])) \in seen
                /\ \A j \in Appended :
                      RowKey(updated_master[j]) # Key(TheCandidate(master_rows[i]))

C21_SingleCandidate ==
    Synced =>
        /\ Scenario1 => Scenario1Expected
        /\ \A i \in Existing :
              SingleCandidate(master_rows[i]) =>
                  /\ updated_master[i].canonical_city = TheCandidate(master_rows[i]).city
                  /\ updated_master[i].canonical_country = TheCandidate(master_rows[i]).country
                  /\ updated_master[i].venue_id = Strip(master_rows[i].venue_id)
                  /\ Key(TheCandidate(master_rows[i])) \in seen
                  /\ \A j \in Appended :
                        RowKey(updated_master[j]) # Key(TheCandidate(master_rows[i]))

\* a row with a blank-padded id was rewritten from its single candidate while
\* another curated Triple was appended
C21_Witness ==
    /\ pc = "synced"
    /\ result.appended_rows > 0
    /\ \E i \in Existing :
          /\ SingleCandidate(master_rows[i])
          /\ master_rows[i].venue_id # Strip(master_rows[i].venue_id)

(***************************************************************************)
(* C22.  updated_rows is the number of existing rows whose normalized      *)
(* (city, country) pair in the output differs from that in the input; a    *)
(* row whose city and country did not change is not counted.               *)
(***************************************************************************)
CityCountry(row) == <<Norm(row.canonical_city), Norm(row.canonical_country)>>

C22_UpdatedRowsCount ==
    Synced =>
        result.updated_rows =
            Cardinality({i \in Existing :
                            CityCountry(updated_master[i]) # CityCountry(master_rows[i])})

\* two existing rows, one rewritten from its single candidate and one kept as it was
C22_Witness ==
    /\ pc = "synced"
    /\ result.updated_rows = 1
    /\ Len(master_rows) = 2
    /\ \E i \in Existing : updated_master[i].canonical_venue # Clean(master_rows[i].canonical_venue)

(***************************************************************************)
(* C23.  Exact match takes precedence: an existing row whose normalized    *)
(* key is the key of a curated Triple keeps its venue, city and country    *)
(* and is counted neither as updated nor as ambiguous, even when two or    *)
(* more curated Triples share its venue name.  As stated the three fields  *)
(* are the input cells; as amended they are the input cells with           *)
(* surrounding whitespace trimmed.                                         *)
(***************************************************************************)
\* the counts come from rows without exact match only
CountedWithoutExactMatch ==
    /\ result.updated_rows = Cardinality({i \in Existing : SingleCandidate(master_rows[i])})
    /\ result.ambiguous_rows =
          Cardinality({i \in Existing :
                          /\ ~ExactMatch(master_rows[i])
                          /\ Cardinality(VenueCandidates(master_rows[i])) >= 2})

CandidateKeys(row) == {Key(t) : t \in VenueCandidates(row)}

C24_AmbiguousRowsCount ==
    Synced =>
        /\ result.ambiguous_rows =
              Cardinality({i \in Existing :
                              /\ ~ExactMatch(master_rows[i])
                              /\ Cardinality(CandidateKeys(master_rows[i])) >= 2})
        /\ \A i \in Existing :
              (~ExactMatch(master_rows[i]) /\ Cardinality(CandidateKeys(master_rows[i])) >= 2)
              => \A k \in DOMAIN master_rows[i] :
                    updated_master[i][k] = Strip(master_rows[i][k])

(***************************************************************************)
(* C25.  After the pass over the existing rows, every curated Triple whose *)
(* key was never marked seen is appended exactly once as a new row with    *)
(* its venue, city and country; appended_rows is the number of such        *)
(* Triples; Triples that share a venue name are all appended, and          *)
(* ambiguous_rows counts existing rows only.                               *)
(***************************************************************************)
C25_UnseenAppendedOnce ==
    Synced =>
        /\ result.appended_rows = Cardinality(UnseenTriples)
        /\ Cardinality(Appended) = Cardinality(UnseenTriples)
        /\ \A t \in UnseenTriples :
              Cardinality({j \in Appended : RowAsTriple(updated_master[j]) = t}) = 1
        /\ result.ambiguous_rows <=
              Cardinality({i \in Existing : Cardinality(VenueCandidates(master_rows[i])) >= 2})

\* two Triples sharing a venue name that no existing row bears were both
\* appended, and nothing was counted ambiguous
C25_Witness ==
    /\ pc = "synced"
    /\ result.ambiguous_rows = 0
    /\ Len(master_rows) > 0
    /\ \E j, k \in Appended :
          /\ j # k
          /\ Norm(updated_master[j].canonical_venue) = Norm(updated_master[k].canonical_venue)
          /\ \A i \in Existing :
                Norm(master_rows[i].canonical_venue) # Norm(updated_master[j].canonical_venue)

(***************************************************************************)
(* C27.  An ambiguous existing row does not suppress appends: each of its  *)
(* candidates whose key no other existing row bears is appended as a new   *)
(* row with a new venue_id, alongside the ambiguous row.  As stated the    *)
(* ambiguous row is untouched; as amended it is kept with its cells        *)
(* trimmed.                                                                *)
(***************************************************************************)
Ambiguous(row) == ~ExactMatch(row) /\ Cardinality(VenueCandidates(row)) >= 2

\* the candidates of ambiguous row i whose key no other existing row bears are appended
CandidatesAppended(i) ==
    \A t \in VenueCandidates(master_rows[i]) :
        (\A j \in Existing \ {i} : RowKey(updated_master[j]) # Key(t)) =>
            \E a \in Appended :
                /\ RowAsTriple(updated_master[a]) = t
                /\ \A j \in Existing :
                      updated_master[a].venue_id # Strip(master_rows[j].venue_id)

C27_AmbiguityKeepsAppendsAsStated ==
    Synced =>
        \A i \in Existing :
            Ambiguous(master_rows[i]) =>
                /\ CandidatesAppended(i)
                /\ updated_master[i] = master_rows[i]

C27_AmbiguityKeepsAppends ==
    Synced =>
        \A i \in Existing :
            Ambiguous(master_rows[i]) =>
                /\ CandidatesAppended(i)
                /\ \A k \in DOMAIN master_rows[i] :
                      updated_master[i][k] = Strip(master_rows[i][k])

\* an ambiguous row with blank-padded cells, both of its candidates appended
C27_Witness ==
    /\ pc = "synced"
    /\ result.appended_rows >= 2
    /\ \E i \in Existing :
          /\ Ambiguous(master_rows[i])
          /\ updated_master[i] # master_rows[i]

(***************************************************************************)
(* C29.  Coverage: the normalized key of every curated Triple is the       *)
(* normalized key of at least one row of the returned registry.            *)
(***************************************************************************)
C29_Coverage ==
    Synced =>
        \A t \in curated :
            \E i \in 1..Len(updated_master) : RowKey(updated_master[i]) = Key(t)

\* one curated Triple covered by the existing row rewritten from it, another by
\* an appended row
C29_Witness ==
    /\ pc = "synced"
    /\ \E t \in curated :
          /\ \E i \in Existing :
                RowKey(updated_master[i]) = Key(t) /\ RowKey(master_rows[i]) # Key(t)
          /\ \A j \in Appended : RowKey(updated_master[j]) # Key(t)
    /\ result.appended_rows >= 1

(***************************************************************************)
(* C30.  Strong fixed point: reconciling the output of sync_master against *)
(* the same curated set again returns a row list equal to it field for     *)
(* field, and the same ambiguous_rows count.                               *)
(***************************************************************************)
C30_StrongFixedPoint ==
    pc = "resynced" =>
        /\ resynced.updated_master = updated_master
        /\ resynced.result.ambiguous_rows = result.ambiguous_rows

\* the first reconciliation trimmed or rewrote a row, appended one and counted
\* an ambiguity
C30_Witness ==
    /\ pc = "resynced"
    /\ result.appended_rows > 0
    /\ result.ambiguous_rows > 0
    /\ \E i \in Existing : updated_master[i] # master_rows[i]

(***************************************************************************)
(* Vocabulary of the properties of main().                                 *)
(***************************************************************************)
\* the registry file holding the complete updated row list
CompleteFile ==
    [cols |-> MASTER_COLUMNS,
     rows |-> [i \in 1..Len(updated_master) |-> WrittenRow(updated_master[i])]]

\* one of the three inputs of the current run lacks a required column
MissingRequiredColumn ==
    \/ ~(COUNTRY_COLUMNS \subseteq country_file.cols)
    \/ ~(ALIAS_COLUMNS \subseteq alias_file.cols)
    \/ ~(MASTER_COLUMNS \subseteq pre_file.cols)

Reconciled == pc \in {"synced", "summarised", "open", "rows", "done"}

(***************************************************************************)
(* C7.  A run without --apply never writes the registry file: from its     *)
(* start to its return (or its death) the file holds its pre-run contents, *)
(* whatever updates, appends and ambiguities the run computed.             *)
(***************************************************************************)
C7_DryRunNeverWrites ==
    (pc # "idle" /\ ~args.apply) => master_file = pre_file

\* a dry run that returned after computing an update, an append and an ambiguity
C7_Witness ==
    /\ pc = "done"
    /\ ~args.apply
    /\ result.updated_rows > 0
    /\ result.appended_rows > 0
    /\ result.ambiguous_rows > 0
    /\ CompleteFile # master_file

(***************************************************************************)
(* C8.  No partial writes: in every state of an apply run, a crash during  *)
(* the write-back included, the registry file holds either its complete    *)
(* pre-run contents or the complete updated row list.                      *)
(***************************************************************************)
C8_NoPartialWrites ==
    (pc # "idle" /\ args.apply) =>
        \/ master_file = pre_file
        \/ master_file = CompleteFile

(***************************************************************************)
(* C9.  If the primary mapping, the alias mapping or the registry lacks a  *)
(* required column, the run stops before any reconciliation and the        *)
(* registry file is not written, in apply mode too.                        *)
(***************************************************************************)
C9_SchemaErrorAborts ==
    (pc # "idle" /\ MissingRequiredColumn) =>
        /\ ~Reconciled
        /\ master_file = pre_file

(***************************************************************************)
(* C17.  An apply run that returns has performed the reconciliation a dry  *)
(* run performs on the same files, and has replaced the registry file's    *)
(* contents wholesale with the full updated row list: every existing row   *)
(* followed by every appended row, each with exactly the four master       *)
(* columns.                                                                *)
(***************************************************************************)
C17_ApplyReplacesWholesale ==
    (pc = "done" /\ args.apply) =>
        /\ curated = LoadCuratedTriples(country_file, alias_file)
        /\ \E curated_iter \in IterationOrders(curated) :
              /\ SyncMaster(ReadCsv(pre_file), curated_iter).updated_master = updated_master
              /\ SyncMaster(ReadCsv(pre_file), curated_iter).result = result
        /\ master_file.cols = MASTER_COLUMNS
        /\ Len(master_file.rows) = Len(pre_file.rows) + result.appended_rows
        /\ Len(master_file.rows) = Len(updated_master)
        /\ \A i \in 1..Len(updated_master) :
              /\ DOMAIN master_file.rows[i] = MASTER_COLUMNS
              /\ \A k \in MASTER_COLUMNS : master_file.rows[i][k] = updated_master[i][k]

\* an apply run that returned after trimming or updating an existing row and
\* appending a new one
C17_Witness ==
    /\ pc = "done"
    /\ args.apply
    /\ result.appended_rows > 0
    /\ Len(pre_file.rows) > 0
    /\ \E i \in 1..Len(pre_file.rows) : master_file.rows[i] # pre_file.rows[i]

(***************************************************************************)
(* C18.  Across apply runs with changing curated sets, a venue_id present  *)
(* in the registry when a run starts is, once the run has ended, still     *)
(* attached (trimmed) to the row at the same position, and that row's      *)
(* normalized venue name is the same: by induction over the runs, an id    *)
(* once present stays with its row and venue in every later registry.      *)
(***************************************************************************)
C18_IdsStayAttached ==
    (pc \in {"done", "crashed"} /\ args.apply /\ "venue_id" \in pre_file.cols) =>
        \A i \in 1..Len(pre_file.rows) :
            /\ i <= Len(master_file.rows)
            /\ Strip(master_file.rows[i].venue_id) = Strip(pre_file.rows[i].venue_id)
            /\ Norm(master_file.rows[i].canonical_venue)
                  = Norm(pre_file.rows[i].canonical_venue)

(***************************************************************************)
(* C28.  Starting from a registry whose venue_ids are pairwise distinct,   *)
(* after any sequence of apply runs with arbitrary curated sets the        *)
(* venue_ids in the registry are pairwise distinct (compared trimmed), and *)
(* no id the registry has ever held is later on a row of another venue.    *)
(***************************************************************************)
C28_IdsNeverReissued ==
    issued.tracking =>
        /\ \A i, j \in 1..Len(master_file.rows) :
              Strip(master_file.rows[i].venue_id) = Strip(master_file.rows[j].venue_id)
                  => i = j
        /\ \A p, q \in issued.ids : p.id = q.id => p.venue = q.venue

(***************************************************************************)
(* C26.  In a dry run the appended-rows preview lists at most              *)
(* preview_limit rows, each of them a row appended by this run (its        *)
(* venue_id absent from the input registry), in append order, and there is *)
(* no preview when preview_limit <= 0 or nothing was appended.             *)
(***************************************************************************)
\* the previews printed by the run
Previews == SelectSeq(stdout, LAMBDA printed : printed.line = "appended_preview")

C26_PreviewOfAppendedRows ==
    (pc = "done" /\ ~args.apply) =>
        IF args.preview_limit <= 0 \/ result.appended_rows = 0
        THEN Previews = <<>>
        ELSE /\ Len(Previews) = 1
             /\ Len(Previews[1].rows) <= args.preview_limit
             /\ Len(Previews[1].rows) <= result.appended_rows
             /\ Len(Previews[1].rows) >= 1
             /\ \A k \in 1..Len(Previews[1].rows) :
                   /\ Previews[1].rows[k] = updated_master[Len(master_rows) + k]
                   /\ \A i \in 1..Len(master_rows) :
                         Previews[1].rows[k].venue_id
                             # Strip(OrEmpty(Get(master_rows[i], "venue_id")))

\* a dry run that appended more rows than its preview limit after existing rows
C26_Witness ==
    /\ pc = "done"
    /\ ~args.apply
    /\ Len(master_rows) > 0
    /\ args.preview_limit > 0
    /\ result.appended_rows > args.preview_limit
    /\ Len(Previews) = 1

\* a dry run with a negative preview limit that appended rows
C26_WitnessNoPreview ==
    /\ pc = "done"
    /\ ~args.apply
    /\ args.preview_limit < 0
    /\ result.appended_rows > 0

(***************************************************************************)
(* Vocabulary of the properties of _load_curated_triples.                  *)
(***************************************************************************)
\* the run has loaded the curated set from the two seed files
Loaded == pc \in {"loaded", "read", "synced", "summarised", "open", "rows", "done"}

\* the text of column k in data row i of a file, empty when the file has no such column
Cell(file, i, k) == IF k \in file.cols THEN file.rows[i][k] ELSE <<>>

\* the trimmed text of three columns of a data row, as a Triple
TrimmedTriple(file, i, venue, city, country) ==
    Triple(Strip(Cell(file, i, venue)), Strip(Cell(file, i, city)),
           Strip(Cell(file, i, country)))

NonEmptyTriple(t) == t.venue # <<>> /\ t.city # <<>> /\ t.country # <<>>

\* data row i of the primary mapping contributes
PrimaryContributes(i) ==
    NonEmptyTriple(TrimmedTriple(country_file, i, "venue", "city", "country"))

\* data row i of the alias mapping contributes
AliasContributes(i) ==
    /\ StartsWith(Lower(Strip(Cell(alias_file, i, "review_status"))), Approved)
    /\ NonEmptyTriple(TrimmedTriple(alias_file, i, "canonical_venue", "canonical_city",
                                    "canonical_country"))

(***************************************************************************)
(* C13.  The loaded curated set holds at most one Triple per normalized    *)
(* (venue, city, country) key: rows of the two sources that differ only    *)
(* in letter case collapse to a single Triple.                             *)
(***************************************************************************)
C13_OneTriplePerKey ==
    Loaded => \A t, u \in curated : Key(t) = Key(u) => t = u

(***************************************************************************)
(* C14.  A Triple is in the loaded set iff it is the trimmed (venue, city, *)
(* country) of a primary-mapping row whose three fields are non-empty      *)
(* after trimming, or the trimmed canonical fields of an alias-mapping row *)
(* whose trimmed, lowercased review_status starts with "approved" and      *)
(* whose three canonical fields are non-empty.                             *)
(***************************************************************************)
C14_LoaderMembership ==
    Loaded =>
        curated =
            {TrimmedTriple(country_file, i, "venue", "city", "country") :
                i \in {j \in 1..Len(country_file.rows) : PrimaryContributes(j)}}
            \cup
            {TrimmedTriple(alias_file, i, "canonical_venue", "canonical_city",
                           "canonical_country") :
                i \in {j \in 1..Len(alias_file.rows) : AliasContributes(j)}}

\* a load that trimmed a primary row, dropped a primary row with an empty country,
\* took an alias row marked "Approved " and dropped an alias row marked "x"
C14_Witness ==
    /\ pc = "loaded"
    /\ \E i \in 1..Len(country_file.rows) :
          /\ PrimaryContributes(i)
          /\ Cell(country_file, i, "venue") # Strip(Cell(country_file, i, "venue"))
    /\ \E i \in 1..Len(country_file.rows) : ~PrimaryContributes(i)
    /\ \E i \in 1..Len(alias_file.rows) :
          /\ AliasContributes(i)
          /\ Cell(alias_file, i, "review_status") # Approved
    /\ \E i \in 1..Len(alias_file.rows) : ~AliasContributes(i)

(***************************************************************************)
(* C19.  With --download, the list handed to extract_files holds only      *)
(* files that are on Cricsheet and not already present locally, and when   *)
(* --limit N is given (N not negative) it holds at most N files.           *)
(***************************************************************************)
C19_DownloadList ==
    pc = "selected" =>
        /\ \A i \in 1..Len(files_to_download) :
              /\ files_to_download[i] \in zip_namelist
              /\ files_to_download[i] \notin local_dir.names
        /\ (~args.limit.none /\ args.limit.n >= 0) => Len(files_to_download) <= args.limit.n

(***************************************************************************)
(* Vocabulary of the properties of format_match_prompt.                    *)
(***************************************************************************)
\* the key-wicket entries of the prompt
WicketEntries == SelectSeq(prompt.match_details, LAMBDA line : line.kind = "wicket")

(***************************************************************************)
(* C20.  The prompt holds at most 8 key-wicket entries, however many key   *)
(* wickets the match data holds.                                           *)
(***************************************************************************)
C20_AtMostEightWickets ==
    pc = "prompted" => Len(WicketEntries) <= 8

====
